---- MODULE Spec2Model ----
(***************************************************************************)
(* A model of src/src/jump_game.rs: JumpGame::new (validation and          *)
(* construction) and JumpGame::is_winnable (depth-first search over board  *)
(* indices with a work stack of isize candidates and a visited set).       *)
(*                                                                         *)
(* Rust's usize and isize are modelled as two's-complement words of Width  *)
(* bits (the target's pointer width, scaled down so that the value ranges  *)
(* are enumerable); `as isize` / `as usize` reinterpret the word, and      *)
(* isize `+` / `-` panic on overflow when the build has overflow checks    *)
(* (the dev and test profiles) and wrap when it has not (release).         *)
(***************************************************************************)
EXTENDS Integers, Sequences, FiniteSets, TLC

\* ---------------------------------------------------------------- bounds
MaxLen == 3

MaxJump == 2

Width == 4

MaxCalls == 2

\* ------------------------------------------------------- machine integers
RECURSIVE Pow2(_)
Pow2(n) == IF n = 0 THEN 1 ELSE 2 * Pow2(n - 1)

UsizeMax == Pow2(Width) - 1

IsizeMax == Pow2(Width - 1) - 1

IsizeMin == 0 - Pow2(Width - 1)

\* `u as isize`: the same word read as a signed number.
AsIsize(u) == IF u > IsizeMax THEN u - Pow2(Width) ELSE u

\* `i as usize`: the same word read as an unsigned number.
AsUsize(i) == IF i < 0 THEN i + Pow2(Width) ELSE i

\* An isize result that does not fit the word.
Overflows(x) == x < IsizeMin \/ x > IsizeMax

\* The word an isize operation leaves when overflow is not checked.
WrapIsize(x) == ((x - IsizeMin) % Pow2(Width)) + IsizeMin

\* ----------------------------------------------------------------- inputs
\* Cell values: small jumps, and the two usize values whose `as isize`
\* reading is negative at the extremes (isize::MIN and -1).
CellValues == (0 .. MaxJump) \cup {IsizeMax + 1, UsizeMax}

RECURSIVE SeqsUpTo(_, _)
SeqsUpTo(S, n) ==
    IF n = 0 THEN {<<>>}
    ELSE LET shorter == SeqsUpTo(S, n - 1)
         IN  shorter \cup {Append(s, x) : s \in {t \in shorter : Len(t) = n - 1}, x \in S}

Boards == SeqsUpTo(CellValues, MaxLen)

StartingIndexes == 0 .. MaxLen

\* ---------------------------------------------------------- Option, Vec
None == <<>>

Some(v) == <<v>>

\* Vec::get(index): Some(&board[index]) when index < len, else None.
BoardGet(board, index) ==
    IF index >= 0 /\ index < Len(board) THEN Some(board[index + 1]) ELSE None

Front(s) == SubSeq(s, 1, Len(s) - 1)

Last(s) == s[Len(s)]

RemoveAt(s, k) == SubSeq(s, 1, k - 1) \o SubSeq(s, k + 1, Len(s))

\* ------------------------------------------------------------ JumpGame::new
Panicked(kind) == [kind |-> kind]

Constructed(board, starting_index) ==
    [kind |-> "Ok", self |-> [board |-> board, starting_index |-> starting_index]]

\* Mutant of New: the bounds check made before the emptiness check.
NewBoundsFirst(board, starting_index) ==
    IF starting_index >= Len(board) THEN Panicked("StartingIndexOutOfBounds")
    ELSE IF Len(board) = 0 THEN Panicked("EmptyBoard")
    ELSE IF ~(\E k \in 1 .. Len(board) : board[k] = 0) THEN Panicked("NoWinningCell")
    ELSE Constructed(board, starting_index)

\* Mutant of New: the zero-presence check left out.
NewNoZeroCheck(board, starting_index) ==
    IF Len(board) = 0 THEN Panicked("EmptyBoard")
    ELSE IF starting_index >= Len(board) THEN Panicked("StartingIndexOutOfBounds")
    ELSE Constructed(board, starting_index)

New(board, starting_index) ==
    IF Len(board) = 0 THEN Panicked("EmptyBoard")
    ELSE IF starting_index >= Len(board) THEN Panicked("StartingIndexOutOfBounds")
    ELSE IF ~(\E k \in 1 .. Len(board) : board[k] = 0) THEN Panicked("NoWinningCell")
    ELSE Constructed(board, starting_index)

\* ---------------------------------------------------- JumpGame::is_winnable
\* Mutant of InitialStack: the search seeded with index 0.
InitialStackZero(self) == <<0>>

\* stack.push(self.starting_index as isize)
InitialStack(self) == <<AsIsize(self.starting_index)>>

\* Mutant of Seen: the visited check left out.
SeenNever(visited, current_index) == FALSE

\* visited.contains(&current_index)
Seen(visited, current_index) == current_index \in visited

\* Mutant of OutOfBoundsLeft: the left-edge check left out.
OutOfBoundsLeftNever(current_index) == FALSE

\* current_index < 0
OutOfBoundsLeft(current_index) == current_index < 0

\* Mutant of MarkVisited: the out-of-bounds-right arm skips the insert.
MarkVisitedInBoundsOnly(visited, current_index, cell) ==
    IF cell = None THEN visited ELSE visited \cup {current_index}

\* visited.insert(current_index) after the match, reached from the
\* Some(value) arm and from the None arm alike.
MarkVisited(visited, current_index, cell) == visited \cup {current_index}

\* One iteration of the `while let` loop for the popped candidate
\* current_index, `rest` being what is left of the stack.  flip = FALSE is
\* the source's push order (i - v, then i + v).  The result holds the
\* locals after the iteration, how control leaves it, and what the
\* iteration did: the index handed to board.get, the cell expanded, the
\* negative candidate recorded.
LoopBody(self, checks, visited, current_index, rest, flip) ==
    LET keep == [stack |-> rest, visited |-> visited, flow |-> "continue",
                 probed |-> {}, expanded |-> <<>>, recorded |-> <<>>]
    IN
    IF Seen(visited, current_index) THEN keep
    ELSE IF OutOfBoundsLeft(current_index) THEN
        [keep EXCEPT !.visited = visited \cup {current_index},
                     !.recorded = <<current_index>>]
    ELSE
        LET cell == BoardGet(self.board, AsUsize(current_index))
            got  == [keep EXCEPT !.probed = {current_index}]
        IN
        IF cell = None THEN
            [got EXCEPT !.visited = MarkVisited(visited, current_index, cell)]
        ELSE IF cell[1] = 0 THEN
            [got EXCEPT !.flow = "return_true"]
        ELSE
            LET jump   == AsIsize(cell[1])
                first  == IF flip THEN current_index + jump ELSE current_index - jump
                second == IF flip THEN current_index - jump ELSE current_index + jump
            IN
            IF checks /\ Overflows(first) THEN
                [got EXCEPT !.flow = "panic"]
            ELSE IF checks /\ Overflows(second) THEN
                [got EXCEPT !.flow = "panic",
                            !.stack = rest \o <<WrapIsize(first)>>]
            ELSE
                [got EXCEPT !.stack = rest \o <<WrapIsize(first), WrapIsize(second)>>,
                            !.visited = MarkVisited(visited, current_index, cell),
                            !.expanded = <<current_index>>]

\* The whole call as a function of the instance and the build: "true",
\* "false", or "panic".
RECURSIVE Run(_, _, _, _)
Run(self, checks, stack, visited) ==
    IF stack = <<>> THEN "false"
    ELSE LET r == LoopBody(self, checks, visited, Last(stack), Front(stack), FALSE)
         IN  IF r.flow = "continue" THEN Run(self, checks, r.stack, r.visited)
             ELSE IF r.flow = "return_true" THEN "true"
             ELSE "panic"

IsWinnable(self, checks) == Run(self, checks, InitialStack(self), {})

\* ------------------------------------------------------------------ state
VARIABLES
    argBoard,         \* the board passed to new
    argStart,         \* the starting index passed to new
    overflow_checks,  \* the build: TRUE for dev/test, FALSE for release
    pc,               \* "new", "failed", "ready", "loop", "panicked"
    made,             \* what new produced: the instance, or the panic kind
    stack,            \* is_winnable's local stack (top at the end)
    visited,          \* is_winnable's local visited set
    results,          \* the booleans the calls on the instance returned
    expanded,         \* this call: cells whose two targets were pushed
    recorded,         \* this call: negative candidates inserted in visited
    probed            \* this call: indexes handed to board.get

vars == <<argBoard, argStart, overflow_checks, pc, made, stack, visited,
          results, expanded, recorded, probed>>

Init ==
    /\ argBoard \in Boards
    /\ argStart \in StartingIndexes
    /\ overflow_checks \in BOOLEAN
    /\ pc = "new"
    /\ made = [kind |-> "Pending"]
    /\ stack = <<>>
    /\ visited = {}
    /\ results = <<>>
    /\ expanded = <<>>
    /\ recorded = <<>>
    /\ probed = {}

\* JumpGame::new(board, starting_index)
Construct ==
    /\ pc = "new"
    /\ made' = New(argBoard, argStart)
    /\ pc' = IF made'.kind = "Ok" THEN "ready" ELSE "failed"
    /\ UNCHANGED <<argBoard, argStart, overflow_checks, stack, visited,
                   results, expanded, recorded, probed>>

\* Mutant of Call: the visited set survives from the previous call.
CallKeepsVisited ==
    /\ pc = "ready"
    /\ Len(results) < MaxCalls
    /\ stack' = InitialStack(made.self)
    /\ expanded' = <<>>
    /\ recorded' = <<>>
    /\ probed' = {}
    /\ pc' = "loop"
    /\ UNCHANGED <<argBoard, argStart, overflow_checks, made, results, visited>>

\* Entry of is_winnable: fresh locals, the starting index pushed.
Call ==
    /\ pc = "ready"
    /\ Len(results) < MaxCalls
    /\ stack' = InitialStack(made.self)
    /\ visited' = {}
    /\ expanded' = <<>>
    /\ recorded' = <<>>
    /\ probed' = {}
    /\ pc' = "loop"
    /\ UNCHANGED <<argBoard, argStart, overflow_checks, made, results>>

\* The state after one loop iteration whose outcome is r.
Advance(r) ==
    /\ stack' = r.stack
    /\ visited' = r.visited
    /\ expanded' = expanded \o r.expanded
    /\ recorded' = recorded \o r.recorded
    /\ probed' = probed \cup r.probed
    /\ pc' = IF r.flow = "continue" THEN "loop"
             ELSE IF r.flow = "return_true" THEN "ready"
             ELSE "panicked"
    /\ results' = IF r.flow = "return_true" THEN Append(results, TRUE) ELSE results
    /\ UNCHANGED <<argBoard, argStart, overflow_checks, made>>

\* while let Some(current_index) = stack.pop() { ... }
Step ==
    /\ pc = "loop"
    /\ stack # <<>>
    /\ Advance(LoopBody(made.self, overflow_checks, visited,
                        Last(stack), Front(stack), FALSE))

\* stack.pop() gave None: the loop ends and the call returns false.
ReturnFalse ==
    /\ pc = "loop"
    /\ stack = <<>>
    /\ results' = Append(results, FALSE)
    /\ pc' = "ready"
    /\ UNCHANGED <<argBoard, argStart, overflow_checks, made, stack, visited,
                   expanded, recorded, probed>>

Next == Construct \/ Call \/ Step \/ ReturnFalse

Spec == Init /\ [][Next]_vars

\* The search with the exploration order left open: any pending candidate
\* is taken next, and the two targets are pushed in either order.
StepAnyOrder ==
    /\ pc = "loop"
    /\ stack # <<>>
    /\ \E k \in 1 .. Len(stack), flip \in BOOLEAN :
          Advance(LoopBody(made.self, overflow_checks, visited,
                           stack[k], RemoveAt(stack, k), flip))

NextAnyOrder == Construct \/ Call \/ StepAnyOrder \/ ReturnFalse

SpecAnyOrder == Init /\ [][NextAnyOrder]_vars

\* ------------------------------------------------------------- properties
Live == made.kind = "Ok"

Board == made.self.board

Start == made.self.starting_index

Returned == pc = "ready" /\ results # <<>>

NoDuplicates(s) == \A i, j \in 1 .. Len(s) : s[i] = s[j] => i = j

\* The cells some finite sequence of jumps reaches from the cells in S, a
\* jump going from an in-bounds index i to i - board[i] or i + board[i]
\* (as numbers, not as machine words) and staying in bounds.
RECURSIVE Reach(_, _)
Reach(board, S) ==
    LET more == S \cup {j \in 0 .. Len(board) - 1 :
                          \E i \in S : j = i - board[i + 1] \/ j = i + board[i + 1]}
    IN  IF more = S THEN S ELSE Reach(board, more)

Winnable(board, start) == \E i \in Reach(board, {start}) : board[i + 1] = 0

\* C1: whenever is_winnable returns, it returns true if and only if some
\* finite sequence of in-bounds jumps leads from the starting index to a
\* cell holding 0.
ReturnsTrueIffZeroReachable ==
    Returned => (results[Len(results)] <=> Winnable(Board, Start))

\* C2: is_winnable never raises an error: no call on a validly
\* constructed game ends in a panic.
NeverPanics == pc # "panicked"

\* C3: new fails with the kind of the first violated condition in the
\* order EmptyBoard, StartingIndexOutOfBounds, NoWinningCell.
ValidationOrder ==
    pc # "new" =>
        /\ Len(argBoard) = 0 => made.kind = "EmptyBoard"
        /\ (Len(argBoard) > 0 /\ argStart >= Len(argBoard))
              => made.kind = "StartingIndexOutOfBounds"
        /\ made.kind = "NoWinningCell"
              <=> /\ Len(argBoard) > 0
                  /\ argStart < Len(argBoard)
                  /\ \A k \in 1 .. Len(argBoard) : argBoard[k] # 0
        /\ made.kind \in {"Ok", "EmptyBoard", "StartingIndexOutOfBounds", "NoWinningCell"}

\* C3 witness: an empty board with a starting index that is out of bounds
\* as well has been rejected as EmptyBoard.
EmptyBoardReportedFirst ==
    pc = "failed" /\ Len(argBoard) = 0 /\ argStart > 0 /\ made.kind = "EmptyBoard"

\* C4: new produces an instance exactly when the board is non-empty, the
\* starting index is in bounds and the board holds a 0; the instance
\* stores the arguments unchanged.
InstanceIffValid ==
    pc # "new" =>
        /\ Live <=> /\ Len(argBoard) >= 1
                    /\ argStart < Len(argBoard)
                    /\ \E k \in 1 .. Len(argBoard) : argBoard[k] = 0
        /\ Live => /\ Board = argBoard
                   /\ Start = argStart
                   /\ Len(Board) >= 1
                   /\ 0 <= Start /\ Start < Len(Board)
                   /\ \E k \in 1 .. Len(Board) : Board[k] = 0

\* C4 witness: an instance exists for a board of several cells and a
\* starting index other than 0.
InstanceConstructed == Live /\ Len(Board) >= 2 /\ Start >= 1

\* C5: no step of is_winnable changes the instance, and all the calls on
\* one instance return the same boolean.
PureQuery ==
    [][ /\ Live => made' = made
        /\ \A i, j \in 1 .. Len(results') : results'[i] = results'[j] ]_vars

\* C5 witness: the instance has been queried MaxCalls times, after a
\* search that expanded a cell.
QueriedRepeatedly == Returned /\ Len(results) = MaxCalls /\ expanded # <<>>

\* C6: when the starting cell holds 0 every call returns true, the only
\* candidate ever on the stack is the starting index, and the call returns
\* with nothing pushed, expanded or visited.
StartOnZeroWins ==
    (Live /\ Board[Start + 1] = 0) =>
        /\ pc # "panicked"
        /\ \A i \in 1 .. Len(results) : results[i]
        /\ pc = "loop" => stack = <<Start>>
        /\ Returned => stack = <<>>
        /\ visited = {} /\ expanded = <<>> /\ recorded = <<>>

\* C6 witness: a call has returned true from a starting cell, not the
\* first of the board, that holds 0 while the first cell does not.
StartedOnZero ==
    Returned /\ Board[Start + 1] = 0 /\ Start >= 1 /\ Board[1] # 0

\* C7 as stated: the visited set holds no index at or past the board length.
VisitedBelowLength == Live => \A i \in visited : i < Len(Board)

\* C7 as amended: a popped, not yet visited candidate at or past the board
\* length is inserted in the visited set; it pushes nothing and the search
\* goes on.
RightOfBoardRecorded ==
    [][ (/\ pc = "loop" /\ stack # <<>>
         /\ Last(stack) \notin visited
         /\ Last(stack) >= Len(Board))
        => /\ visited' = visited \cup {Last(stack)}
           /\ stack' = Front(stack)
           /\ pc' = "loop"
           /\ results' = results ]_vars

\* C7 witness: the visited set holds an index at or past the board length.
VisitedHoldsRightOfBoard == Live /\ \E i \in visited : i >= Len(Board)

\* C8: within one call no cell is expanded twice, no negative candidate is
\* recorded twice, and the expansions number at most the board length.
ExpandedAtMostOnce ==
    Live => /\ NoDuplicates(expanded)
            /\ NoDuplicates(recorded)
            /\ Len(expanded) <= Len(Board)
            /\ \A k \in 1 .. Len(expanded) : expanded[k] \in visited

\* C8 witness: after several expansions and a recorded negative candidate,
\* the candidate on top of the stack is one already visited.
RevisitPending ==
    /\ pc = "loop" /\ stack # <<>>
    /\ Last(stack) \in visited
    /\ Len(expanded) >= 2
    /\ recorded # <<>>

\* C9: whatever pending candidate is taken next and in whichever order the
\* two targets are pushed, the call ends as it does in the source's order.
OrderIndependent ==
    /\ Returned => (IF results[Len(results)] THEN "true" ELSE "false")
                      = IsWinnable(made.self, overflow_checks)
    /\ pc = "panicked" => IsWinnable(made.self, overflow_checks) = "panic"

\* C10: popping a not yet visited negative candidate inserts it in the
\* visited set, pushes nothing and reports no win; board.get is never
\* handed a negative index.
LeftOfBoardRecorded ==
    [][ /\ (/\ pc = "loop" /\ stack # <<>>
            /\ Last(stack) \notin visited
            /\ Last(stack) < 0)
           => /\ visited' = visited \cup {Last(stack)}
              /\ stack' = Front(stack)
              /\ pc' = "loop"
              /\ results' = results
              /\ probed' = probed
        /\ \A i \in probed' : i >= 0 ]_vars

\* C10 witness: a negative candidate has been recorded and the search
\* went on to read the board.
NegativeCandidateRecorded ==
    pc = "loop" /\ recorded # <<>> /\ probed # {} /\ \E i \in visited : i < 0

====
